---- MODULE Spec2Model ----
(***************************************************************************)
(* Model of tobs (tobs/tobs.py): the Observable class and print_results.   *)
(*                                                                         *)
(* Numbers are fixed point.  Angles are integers in units of 1/LonScale    *)
(* degree.  Instants are integers in ticks of 1/TicksPerDay day counted    *)
(* from Julian date 2458287.5 (MissionStartJD2 / 2), so that every instant *)
(* the program builds (window bounds, linspace samples, +-28 days) is an   *)
(* exact integer.  np.sin is a degree table with linear interpolation.     *)
(***************************************************************************)
EXTENDS Integers, Sequences, FiniteSets, TLC

\* ------------------------------------------------------------------------
\* Scales of the fixed-point representation
\* ------------------------------------------------------------------------
LonScale == 100 * 100
TicksPerDay == 365 * 24
Circle == 360 * LonScale
\* Python None, and a value v that may be None instead: <<>> or <<v>>
None == <<>>

\* floor(a * b / c) without leaving 32 bits, for 0 <= b < c or small a \div c
MulDiv(a, b, c) == (a \div c) * b + ((a % c) * b) \div c

\* ------------------------------------------------------------------------
\* astropy.time.Time: calendar <-> Julian day number (proleptic Gregorian)
\* ------------------------------------------------------------------------
\* Julian day number of the civil date y-m-d (the day's noon)
JDN(y, m, d) ==
    LET a  == (14 - m) \div 12
        yy == y + 4800 - a
        mm == m + 12 * a - 3
    IN  d + (153 * mm + 2) \div 5 + 365 * yy + yy \div 4 - yy \div 100
          + yy \div 400 - 32045

\* twice the Julian date of mission start, 2458287.5 (tobs.py:148-149)
MissionStartJD2 == 4916575
\* twice the Julian date of the epoch J2000.0, 2451545.0 (tobs.py:64)
J2000JD2 == 4903090

\* Time('y-m-dT00:00:00', format='isot').jd, in ticks since mission start
IsotToTicks(isot) ==
    ((2 * JDN(isot[1], isot[2], isot[3]) - 1) - MissionStartJD2)
        * (TicksPerDay \div 2)

\* ------------------------------------------------------------------------
\* np.sin(np.radians(x)), scaled by SinScale; x in 1/LonScale degree
\* ------------------------------------------------------------------------
SinScale == 100 * 100
SinTable ==
    << 0, 175, 349, 523, 698, 872, 1045, 1219, 1392, 1564,
       1736, 1908, 2079, 2250, 2419, 2588, 2756, 2924, 3090, 3256,
       3420, 3584, 3746, 3907, 4067, 4226, 4384, 4540, 4695, 4848,
       5000, 5150, 5299, 5446, 5592, 5736, 5878, 6018, 6157, 6293,
       6428, 6561, 6691, 6820, 6947, 7071, 7193, 7314, 7431, 7547,
       7660, 7771, 7880, 7986, 8090, 8192, 8290, 8387, 8480, 8572,
       8660, 8746, 8829, 8910, 8988, 9063, 9135, 9205, 9272, 9336,
       9397, 9455, 9511, 9563, 9613, 9659, 9703, 9744, 9781, 9816,
       9848, 9877, 9903, 9925, 9945, 9962, 9976, 9986, 9994, 9998,
       10000 >>

SinQuadrant(a) ==
    LET k == a \div LonScale
        f == a % LonScale
    IN  IF f = 0 THEN SinTable[k + 1]
        ELSE SinTable[k + 1]
               + ((SinTable[k + 2] - SinTable[k + 1]) * f) \div LonScale

Sin(v) ==
    LET a == v % Circle
    IN  IF a <= 90 * LonScale THEN SinQuadrant(a)
        ELSE IF a <= 180 * LonScale THEN SinQuadrant(180 * LonScale - a)
        ELSE IF a <= 270 * LonScale THEN 0 - SinQuadrant(a - 180 * LonScale)
        ELSE 0 - SinQuadrant(Circle - a)

\* ------------------------------------------------------------------------
\* Observable.get_antisolarlon
\* ------------------------------------------------------------------------
\* coef8 * D, D in days given as ticks; coef8 in 1e-8 degree per day;
\* result in 1/LonScale degree
RateTimesD(coef8, Dticks) ==
    LET days == Dticks \div TicksPerDay
        r    == Dticks % TicksPerDay
    IN  (coef8 \div 10000) * days + ((coef8 % 10000) * days) \div 10000
          + MulDiv(coef8, r, TicksPerDay) \div 10000

get_antisolarlon(jd) ==
    LET D == jd + (MissionStartJD2 - J2000JD2) * (TicksPerDay \div 2)
        g == 3575290 + RateTimesD(98560028, D)
        q == 2804590 + RateTimesD(98564736, D)
        L == q + (19150 * Sin(g)) \div SinScale
               + (200 * Sin(2 * g)) \div SinScale
    IN  (L + 180 * LonScale) % Circle

\* ------------------------------------------------------------------------
\* Observable.get_hemisphere / get_hemisphererange
\* ------------------------------------------------------------------------
\* variant: the thresholds themselves count as south and north
get_hemisphere_inclusive(lat) ==
    IF lat <= -55000 THEN "south"
    ELSE IF lat >= 55000 THEN "north"
    ELSE "False"

get_hemisphere(lat) ==
    IF lat < -55000 THEN "south"
    ELSE IF lat > 55000 THEN "north"
    ELSE "False"

SouthWindow == << <<2018, 6, 18>>, <<2019, 6, 18>> >>
NorthWindow == << <<2019, 6, 18>>, <<2020, 6, 18>> >>

\* variant: a target that is not south is given the north window
get_hemisphererange_always(lat) ==
    IF get_hemisphere(lat) = "south" THEN SouthWindow ELSE NorthWindow

get_hemisphererange(lat) ==
    IF get_hemisphere(lat) = "False" THEN None
    ELSE IF get_hemisphere(lat) = "south" THEN SouthWindow
    ELSE NorthWindow

\* ------------------------------------------------------------------------
\* scipy.interpolate.interp1d(x, y, kind='nearest').  x and y are functions
\* on 0..n-1.  interp1d sorts x (stable), puts the breakpoints at the
\* midpoints of consecutive sorted x and looks x_new up with
\* searchsorted(side='left'): the nearest x wins, the smaller x on a tie,
\* and among equal x the first when x_new <= x, the last otherwise.
\* bounds_error defaults to True: x_new outside [min x, max x] raises.
\* ------------------------------------------------------------------------
Abs(v) == IF v < 0 THEN 0 - v ELSE v

RECURSIVE ArgMin(_, _, _)
ArgMin(x, lo, hi) ==
    IF lo = hi THEN lo
    ELSE LET mid == (lo + hi) \div 2
             a   == ArgMin(x, lo, mid)
             b   == ArgMin(x, mid + 1, hi)
         IN  IF x[a] <= x[b] THEN a ELSE b

RECURSIVE ArgMax(_, _, _)
ArgMax(x, lo, hi) ==
    IF lo = hi THEN lo
    ELSE LET mid == (lo + hi) \div 2
             a   == ArgMax(x, lo, mid)
             b   == ArgMax(x, mid + 1, hi)
         IN  IF x[a] >= x[b] THEN a ELSE b

\* f = interp1d(x, y, kind='nearest'): the interpolant, with the range of x
interp1d(x, y, n) ==
    [x    |-> x,
         y    |-> y,
         n    |-> n,
     x_lo |-> x[ArgMin(x, 0, n - 1)],
     x_hi |-> x[ArgMax(x, 0, n - 1)]]

\* sample i is picked in preference to sample j
Closer(x, x_new, i, j) ==
    LET di == Abs(x[i] - x_new)
        dj == Abs(x[j] - x_new)
    IN  IF di # dj THEN di < dj
        ELSE IF x[i] # x[j] THEN x[i] < x[j]
        ELSE IF x_new <= x[i] THEN i <= j
        ELSE i >= j

\* the nearest sample lies within w of x_new as soon as any sample does
RECURSIVE ArgNearest(_, _, _, _)
ArgNearest(x, n, x_new, w) ==
    LET near == {i \in 0 .. n - 1 : Abs(x[i] - x_new) <= w}
    IN  IF near = {} THEN ArgNearest(x, n, x_new, 2 * w)
        ELSE CHOOSE i \in near : \A j \in near : Closer(x, x_new, i, j)

\* f(x_new) raises ValueError (interp1d._check_bounds)
interp1d_raises(f, x_new) == x_new < f.x_lo \/ x_new > f.x_hi

\* f(x_new) when it does not raise
interp1d_call(f, x_new) == f.y[ArgNearest(f.x, f.n, x_new, LonScale \div 4)]

\* ------------------------------------------------------------------------
\* Observable.get_antisolardate
\* ------------------------------------------------------------------------
\* number of points of np.linspace(0., 1., 365 * 24 + 1)
NSamples == 365 * 24 + 1

\* times = t[0] + dt * np.linspace(0., 1., NSamples)
SampleTimes(tr) ==
    LET t0 == IsotToTicks(tr[1])
        dt == IsotToTicks(tr[2]) - t0
    IN  [i \in 0 .. NSamples - 1 |-> t0 + MulDiv(dt, i, NSamples - 1)]

SampleLons(times) == [i \in DOMAIN times |-> get_antisolarlon(times[i])]

\* f = interp1d(self.get_antisolarlon(times), times.jd, kind='nearest');
\* f depends on the window only, so it is tabulated once per window
AntisolarInterp(tr) ==
    LET times == SampleTimes(tr)
    IN  interp1d(SampleLons(times), times, NSamples)

SouthInterp == AntisolarInterp(SouthWindow)
NorthInterp == AntisolarInterp(NorthWindow)

InterpOf(tr) == IF tr = SouthWindow THEN SouthInterp ELSE NorthInterp

\* get_antisolardate ends in the ValueError of f
get_antisolardate_raises(lon, lat) ==
    LET tr == get_hemisphererange(lat)
    IN  tr # None /\ interp1d_raises(InterpOf(tr), lon)

\* the value get_antisolardate returns otherwise: None or <<date>>
get_antisolardate(lon, lat) ==
    LET tr == get_hemisphererange(lat)
    IN  IF tr = None THEN None
        ELSE <<interp1d_call(InterpOf(tr), lon)>>

\* ------------------------------------------------------------------------
\* astropy.time.Time output: .iso with out_subfmt='date_hm', str() of a
\* Time of format 'jd'
\* ------------------------------------------------------------------------
\* civil date <<y, m, d>> of a Julian day number
CivilFromJDN(J) ==
    LET f == J + 1401 + (((4 * J + 274277) \div 146097) * 3) \div 4 - 38
        e == 4 * f + 3
        g == (e % 1461) \div 4
        h == 5 * g + 2
        d == (h % 153) \div 5 + 1
        m == ((h \div 153 + 2) % 12) + 1
        y == e \div 1461 - 4716 + (14 - m) \div 12
    IN  <<y, m, d>>

\* 'YYYY-MM-DD HH:MM' of an instant in ticks, as <<Y, M, D, h, m>>;
\* the seconds are dropped
Iso(t) ==
    LET day    == t \div TicksPerDay
        minute == MulDiv(24 * 60, t % TicksPerDay, TicksPerDay)
        ymd    == CivilFromJDN((MissionStartJD2 + 1) \div 2 + day)
    IN  [fmt |-> "iso",
         val |-> <<ymd[1], ymd[2], ymd[3], minute \div 60, minute % 60>>]

\* Time(jd, format='jd') printed with str(): the Julian date as a number
\* (kept as twice its value)
JdStr(jd2) == [fmt |-> "jd", val |-> <<jd2>>]

\* Time(jd, format='jd').jd in ticks since mission start
JdToTicks(jd2) == (jd2 - MissionStartJD2) * (TicksPerDay \div 2)

\* ------------------------------------------------------------------------
\* print_results: the values formatted into the three date lines
\* ------------------------------------------------------------------------
\* antisolar = antisolardateobj.iso
AntisolarText(obj) == Iso(obj)

\* earliest = (antisolardateobj - 28 * u.day).iso, replaced by
\* Time(2458287.5, format='jd') when (antisolardateobj - 28 * u.day).jd
\* < 2458287.5
\* variant: no clamp to mission start
EarliestText_unclamped(obj) == Iso(obj - 28 * TicksPerDay)

EarliestText(obj) ==
    IF obj - 28 * TicksPerDay < JdToTicks(MissionStartJD2)
    THEN JdStr(MissionStartJD2)
    ELSE Iso(obj - 28 * TicksPerDay)

\* latest = (antisolardateobj + 28 * u.day).iso
LatestText(obj) == Iso(obj + 28 * TicksPerDay)

\* np.abs(obs.get_ecliptic()[1]) > 30
MultiSector(lat) == Abs(lat) > 300000

Line(kind, name, text) ==
    [kind |-> kind, name |-> name, fmt |-> text.fmt, val |-> text.val]
NoText == [fmt |-> "", val |-> <<>>]
Blank == Line("blank", "", NoText)

\* ------------------------------------------------------------------------
\* Inputs: the names typed, and what the Simbad query and the coordinate
\* transformation can return for them
\* ------------------------------------------------------------------------
MaxOff == 1
NLon == 8

Names == {"pi Men", "* pi. Men"}
MainIds == {"* pi. Men"}

LatInputs ==
    {c + d : c \in {-300000, -55000, 55000, 300000}, d \in -MaxOff .. MaxOff}
      \cup {-900000, -200000, -100000, 0, 100000, 400000, 900000}

GridLons == {k * (Circle \div NLon) : k \in 0 .. NLon - 1}

\* longitudes next to the ends of the sampled range, to the antisolar
\* longitude of the window's first and last instant, between the two, and
\* next to the antisolar longitude 28 days into the window
EdgeLons(f) ==
    {c + d : c \in {f.x_lo, f.x_hi, f.x[0], f.x[f.n - 1],
                    (f.x[0] + f.x[f.n - 1]) \div 2, f.x[28 * 24]},
             d \in -MaxOff .. MaxOff}

Coordinates ==
    {c \in (GridLons \X LatInputs)
           \cup ((EdgeLons(SouthInterp) \cup EdgeLons(NorthInterp)
                    \cup {0, Circle - 1})
                 \X {-100000, 400000}) :
        c[1] >= 0 /\ c[1] < Circle}

\* Simbad.query_object: None, or <<row>>
SimbadResults ==
    {None} \cup {<<[MAIN_ID |-> id, lon |-> c[1], lat |-> c[2]]>> :
                    id \in MainIds, c \in Coordinates}

\* ------------------------------------------------------------------------
\* State
\* ------------------------------------------------------------------------
VARIABLES
    pc,                \* position in tobs() / print_results()
    args_name,         \* the name given on the command line
    result_table,      \* Observable.__init__: result_table, None before
    obs_name,          \* obs.name
    lon_deg, lat_deg,  \* obs.get_ecliptic()
    timerange,         \* get_antisolardate: timerange
    sampled,           \* get_antisolardate: times and f have been built
    antisolardateobj,  \* print_results: antisolardateobj
    stdout,            \* lines printed
    errlog,            \* logger.error calls
    exit_code          \* exit status of the process, -1 while it runs

vars == <<pc, args_name, result_table, obs_name, lon_deg, lat_deg, timerange, sampled,
          antisolardateobj, stdout, errlog, exit_code>>

Running == 0 - 1

Init ==
    /\ pc = "start"
    /\ args_name \in Names
    /\ result_table = None
    /\ obs_name = ""
    /\ lon_deg = 0
    /\ lat_deg = 0
    /\ timerange = None
    /\ sampled = FALSE
    /\ antisolardateobj = None
    /\ stdout = <<>>
    /\ errlog = <<>>
    /\ exit_code = Running

\* Observable.__init__, the query returning nothing: logger.error, sys.exit(1)
ResolveFail ==
    /\ pc = "start"
    /\ None \in SimbadResults
    /\ errlog' = Append(errlog, "Target name failed to resolve, please check")
    /\ exit_code' = 1
    /\ pc' = "done"
    /\ UNCHANGED <<args_name, result_table, obs_name, lon_deg, lat_deg, timerange, sampled,
                   antisolardateobj, stdout>>

\* Observable.__init__ with a result, then the 'Resolved name' lines of
\* print_results (lines 126-134)
Resolve ==
    /\ pc = "start"
    /\ \E r \in SimbadResults \ {None} :
          /\ result_table' = r
          /\ obs_name' = r[1].MAIN_ID
          /\ lon_deg' = r[1].lon
          /\ lat_deg' = r[1].lat
          /\ stdout' = stdout
                \o <<Blank, Line("resolved", r[1].MAIN_ID, NoText), Blank>>
    /\ pc' = "range"
    /\ UNCHANGED <<args_name, timerange, sampled, antisolardateobj, errlog,
                   exit_code>>

\* get_antisolardate, lines 75-77: no window, return None
NoRange ==
    /\ pc = "range"
    /\ get_hemisphererange(lat_deg) = None
    /\ timerange' = None
    /\ antisolardateobj' = None
    /\ pc' = "report"
    /\ UNCHANGED <<args_name, result_table, obs_name, lon_deg, lat_deg, sampled, stdout,
                   errlog, exit_code>>

\* get_antisolardate, lines 75-84: sample the window, interpolate; a
\* ValueError of the interpolant is not caught and ends the process with
\* status 1
Interpolate ==
    /\ pc = "range"
    /\ get_hemisphererange(lat_deg) # None
    /\ timerange' = get_hemisphererange(lat_deg)
    /\ sampled' = TRUE
    /\ IF get_antisolardate_raises(lon_deg, lat_deg)
       THEN /\ antisolardateobj' = None
            /\ exit_code' = 1
            /\ pc' = "done"
       ELSE /\ antisolardateobj' = get_antisolardate(lon_deg, lat_deg)
            /\ exit_code' = exit_code
            /\ pc' = "report"
    /\ UNCHANGED <<args_name, result_table, obs_name, lon_deg, lat_deg, stdout, errlog>>

\* print_results, lines 137-140
PrintNotObserved ==
    /\ pc = "report"
    /\ antisolardateobj = None
    /\ stdout' = Append(stdout, Line("not_observed", "", NoText))
    /\ pc' = "tail"
    /\ UNCHANGED <<args_name, result_table, obs_name, lon_deg, lat_deg, timerange, sampled,
                   antisolardateobj, errlog, exit_code>>

\* print_results, lines 142-167
PrintDates ==
    /\ pc = "report"
    /\ antisolardateobj # None
    /\ stdout' = stdout
          \o << Line("antisolar", "", AntisolarText(antisolardateobj[1])),
                Line("earliest", "", EarliestText(antisolardateobj[1])),
                Line("latest", "", LatestText(antisolardateobj[1])) >>
          \o (IF MultiSector(lat_deg)
              THEN <<Blank, Line("advisory", "", NoText)>>
              ELSE <<>>)
    /\ pc' = "tail"
    /\ UNCHANGED <<args_name, result_table, obs_name, lon_deg, lat_deg, timerange, sampled,
                   antisolardateobj, errlog, exit_code>>

\* print_results, line 169, and the return to the shell
Finish ==
    /\ pc = "tail"
    /\ stdout' = Append(stdout, Blank)
    /\ exit_code' = 0
    /\ pc' = "done"
    /\ UNCHANGED <<args_name, result_table, obs_name, lon_deg, lat_deg, timerange, sampled,
                   antisolardateobj, errlog>>

Next ==
    \/ ResolveFail
    \/ Resolve
    \/ NoRange
    \/ Interpolate
    \/ PrintNotObserved
    \/ PrintDates
    \/ Finish

Spec == Init /\ [][Next]_vars

\* ========================================================================
\* Properties
\* ========================================================================
Done == pc = "done"
WasResolved == result_table # None

\* the printed lines without the empty ones
Content == SelectSeq(stdout, LAMBDA l : l.kind # "blank")
Kinds(lines) == [i \in DOMAIN lines |-> lines[i].kind]
HasLine(kind) == \E i \in DOMAIN stdout : stdout[i].kind = kind
LineOf(kind) == stdout[CHOOSE i \in DOMAIN stdout : stdout[i].kind = kind]

\* the report: what is printed after the 'Resolved name' line
Report == IF Content = <<>> THEN <<>> ELSE Tail(Content)

\* the instant a printed date denotes, in minutes since mission start
InstantOf(line) ==
    IF line.fmt = "jd" THEN (line.val[1] - MissionStartJD2) * (12 * 60)
    ELSE (JDN(line.val[1], line.val[2], line.val[3])
            - (MissionStartJD2 + 1) \div 2) * (24 * 60)
         + line.val[4] * 60 + line.val[5]

\* ------------------------------------------------------------------------
\* C1: an unresolved name ends the run with exit code 1 after an error is
\* logged and with nothing on standard output; every run whose name
\* resolved ends with exit code 0.
C1_ExitCodes ==
    Done =>
      IF WasResolved THEN exit_code = 0
      ELSE exit_code = 1 /\ Len(errlog) = 1 /\ stdout = <<>>

\* ------------------------------------------------------------------------
\* C2: the window used is [2018-06-18T00:00, 2019-06-18T00:00] (south) iff
\* lat_deg < -5.5, [2019-06-18T00:00, 2020-06-18T00:00] (north) iff
\* lat_deg > 5.5, and there is none otherwise, -5.5 and 5.5 included;
\* the longitude plays no part.
C2_Hemisphere ==
    (WasResolved /\ pc # "range") =>
      /\ (lat_deg < -55000) <=>
           /\ get_hemisphere(lat_deg) = "south"
           /\ timerange = << <<2018, 6, 18>>, <<2019, 6, 18>> >>
      /\ (lat_deg > 55000) <=>
           /\ get_hemisphere(lat_deg) = "north"
           /\ timerange = << <<2019, 6, 18>>, <<2020, 6, 18>> >>
      /\ (lat_deg >= -55000 /\ lat_deg <= 55000) <=>
           /\ get_hemisphere(lat_deg) = "False"
           /\ timerange = None
      /\ timerange # None =>
           /\ IsotToTicks(timerange[1]) \in {0, 365 * TicksPerDay}
           /\ IsotToTicks(timerange[2]) - IsotToTicks(timerange[1])
                = (IF lat_deg < 0 THEN 365 ELSE 366) * TicksPerDay

C2_Witness ==
    pc = "report" /\ lat_deg = 55000 /\ timerange = None

\* ------------------------------------------------------------------------
\* C3: a target within +-5.5 degrees of the ecliptic has no antisolar date,
\* nothing is sampled or interpolated for it, its report is exactly the
\* line "Ecliptic target not observed by TESS" and the exit code is 0.
C3_NoDateOnEcliptic ==
    (WasResolved /\ pc # "range" /\ lat_deg >= -55000 /\ lat_deg <= 55000) =>
      /\ antisolardateobj = None
      /\ ~sampled
      /\ Done => /\ Kinds(Report) = <<"not_observed">>
                 /\ exit_code = 0

C3_Witness ==
    Done /\ WasResolved /\ lat_deg = 0 /\ HasLine("not_observed")

\* ------------------------------------------------------------------------
\* C4: for a south or north target and every longitude in [0, 360),
\* get_antisolardate returns a date, never None and never an error; the
\* date lies in the window, ends included, and is one of the sampled
\* instants.
C4_DateInWindow ==
    sampled =>
      /\ antisolardateobj # None
      /\ antisolardateobj[1] >= IsotToTicks(timerange[1])
      /\ antisolardateobj[1] <= IsotToTicks(timerange[2])
      /\ \E i \in 0 .. NSamples - 1 :
            SampleTimes(timerange)[i] = antisolardateobj[1]

\* ------------------------------------------------------------------------
\* C5: when the antisolar date minus 28 days precedes Julian date
\* 2458287.5, the earliest date is printed as 2458287.5 in calendar form,
\* the form of the other dates, not as a Julian-date number.
C5_ClampIsCalendar ==
    (Done /\ HasLine("earliest")
          /\ antisolardateobj[1] - 28 * TicksPerDay < 0) =>
      /\ LineOf("earliest").fmt = LineOf("latest").fmt
      /\ LineOf("earliest").val = <<2018, 6, 18, 0, 0>>

\* ------------------------------------------------------------------------
\* C6: in a report with dates, D the antisolar date: latest = D + 28 days;
\* earliest = D - 28 days when that is at or after Julian date 2458287.5,
\* else 2458287.5; and 2458287.5 <= earliest <= D < latest.
C6_EarliestLatest ==
    (Done /\ HasLine("antisolar")) =>
      LET D        == InstantOf(LineOf("antisolar"))
          earliest == InstantOf(LineOf("earliest"))
          latest   == InstantOf(LineOf("latest"))
          days28   == 28 * 24 * 60
      IN  /\ latest = D + days28
          /\ earliest = (IF D - days28 >= 0 THEN D - days28 ELSE 0)
          /\ 0 <= earliest /\ earliest <= D /\ D < latest

C6_Witness ==
    /\ Done /\ HasLine("earliest")
    /\ timerange = << <<2018, 6, 18>>, <<2019, 6, 18>> >>
    /\ antisolardateobj[1] < 28 * TicksPerDay
    /\ InstantOf(LineOf("earliest")) = 0

\* ------------------------------------------------------------------------
\* C7: the multi-sector advisory is printed for every resolved target with
\* |lat_deg| > 30 and for no other target.
C7_Advisory ==
    (Done /\ WasResolved) =>
      (HasLine("advisory") <=> (lat_deg > 300000 \/ lat_deg < -300000))

\* ------------------------------------------------------------------------
\* C8: the antisolar longitude at the returned date differs from lon_deg
\* by no more than the largest change of the antisolar longitude between
\* two consecutive sampled instants.
CircDist(a, b) ==
    LET d == (a - b) % Circle
    IN  IF d <= Circle - d THEN d ELSE Circle - d

MaxStep(f) ==
    LET step == [i \in 0 .. f.n - 2 |-> (f.x[i + 1] - f.x[i]) % Circle]
    IN  step[ArgMax(step, 0, f.n - 2)]

SouthMaxStep == MaxStep(SouthInterp)
NorthMaxStep == MaxStep(NorthInterp)

C8_RoundTrip ==
    (pc = "report" /\ antisolardateobj # None) =>
      CircDist(get_antisolarlon(antisolardateobj[1]), lon_deg)
        <= (IF timerange = SouthWindow THEN SouthMaxStep ELSE NorthMaxStep)

\* ------------------------------------------------------------------------
\* C9: for a resolved target the 'Resolved name' line comes first and shows
\* the canonical identifier; after it comes exactly one report: the 'not
\* observed' line, or the antisolar, earliest and latest lines in that
\* order, followed by the advisory only when it applies.
C9_OutputOrder ==
    (Done /\ WasResolved) =>
      /\ Content # <<>>
      /\ Content[1].kind = "resolved"
      /\ Content[1].name = result_table[1].MAIN_ID
      /\ \/ Kinds(Report) = <<"not_observed">>
         \/ Kinds(Report) = <<"antisolar", "earliest", "latest">>
         \/ /\ Kinds(Report) = <<"antisolar", "earliest", "latest", "advisory">>
            /\ (lat_deg > 300000 \/ lat_deg < -300000)

\* ------------------------------------------------------------------------
\* C10: each window is sampled at 365 * 24 + 1 instants, the first the
\* window's start, the last its end, consecutive ones exactly one hour
\* apart.
C10_HourlySamples ==
    (sampled /\ antisolardateobj # None) =>
      LET times == InterpOf(timerange).y
      IN  /\ DOMAIN times = 0 .. 365 * 24
          /\ times[0] = IsotToTicks(timerange[1])
          /\ times[365 * 24] = IsotToTicks(timerange[2])
          /\ \A i \in 0 .. 365 * 24 - 1 :
                times[i + 1] - times[i] = TicksPerDay \div 24

====
